---- MODULE Spec2Model ----
(***************************************************************************)
(* Import grouping validator and line based rewriter (package gogroup),    *)
(* its earlier snapshot (package group_imports) and the command line       *)
(* grouper of cmd/group-imports.                                           *)
(*                                                                         *)
(* A file is a sequence of lines.  A line is a record [k, p]: k is what    *)
(* the parser sees on the line, p the index of the import path (k = "imp") *)
(* and what tells two texts of one kind apart otherwise.  Line numbers are *)
(* zero based as in the code; a Go slice lines[a:b] is                     *)
(* SubSeq(lines, a + 1, b).                                                *)
(***************************************************************************)
EXTENDS Integers, Sequences, FiniteSets, TLC

VARIABLES
    grouper,    \* the Grouper injected into the Processor
    src,        \* the text handed to the call: [lines, nl]
    op,         \* the last call made
    gs,         \* the groupedImports slice of the last call, as the call left it
    validErr,   \* *ValidationError result: << >> is nil, <<e>> is &e
    out,        \* io.Reader result: << >> is nil, <<text>> holds the text
    err,        \* error result: "nil" or the failure
    formatted,  \* what imports.Process returned to reformat: << >> or <<text>>
    rdOk,       \* whether the reader of the last call delivered its bytes
    g,          \* the command line grouper: [prefixes, std, other, next]
    setArg,     \* the argument, when the last call was grouper.Set
    groupArg,   \* the argument, when the last call was grouper.Group
    groupRet    \* what that call returned

vars == <<grouper, src, op, gs, validErr, out, err, formatted, rdOk,
          g, setArg, groupArg, groupRet>>

cliVars == <<g, setArg, groupArg, groupRet>>

(***************************************************************************)
(* Bounds.                                                                 *)
(***************************************************************************)
\* longest import block (first import line to last import line) of an input
MaxBlock == 4
\* longest import block of an input that has no final newline, an overlong
\* line or a line that does not parse
MaxOddBlock == 3
\* largest group id the command line grouper hands out
MaxNext == 4
\* most specifications in one -order argument
MaxParts == 2

None == << >>
Some(x) == <<x>>

(***************************************************************************)
(* Strings are sequences of one-character strings, compared bytewise.      *)
(***************************************************************************)
Ord(c) ==
    CASE c = "," -> 44 [] c = "." -> 46 [] c = "/" -> 47 [] c = "=" -> 61
      [] c = "a" -> 97 [] c = "b" -> 98 [] c = "c" -> 99 [] c = "d" -> 100
      [] c = "e" -> 101 [] c = "f" -> 102 [] c = "g" -> 103 [] c = "h" -> 104
      [] c = "i" -> 105 [] c = "l" -> 108 [] c = "n" -> 110 [] c = "o" -> 111
      [] c = "p" -> 112 [] c = "r" -> 114 [] c = "s" -> 115 [] c = "t" -> 116
      [] c = "x" -> 120 [] c = "y" -> 121 [] c = "z" -> 122

\* Go's s < t on strings
RECURSIVE StrLess(_, _)
StrLess(s, t) ==
    IF t = << >> THEN FALSE
    ELSE IF s = << >> THEN TRUE
    ELSE IF Ord(Head(s)) # Ord(Head(t)) THEN Ord(Head(s)) < Ord(Head(t))
    ELSE StrLess(Tail(s), Tail(t))

HasPrefix(s, prefix) ==
    /\ Len(prefix) <= Len(s)
    /\ SubSeq(s, 1, Len(prefix)) = prefix

Contains(s, c) == \E i \in 1..Len(s) : s[i] = c

Count(s, c) == Cardinality({i \in 1..Len(s) : s[i] = c})

\* the import paths of the inputs: "os", "x.y/z", "local/a"
Paths ==
    << <<"o", "s">>,
       <<"x", ".", "y", "/", "z">>,
       <<"l", "o", "c", "a", "l", "/", "a">> >>

strLocal == <<"l", "o", "c", "a", "l", "/">>
strAppengine == <<"a", "p", "p", "e", "n", "g", "i", "n", "e">>

(***************************************************************************)
(* The reference Groupers.                                                 *)
(***************************************************************************)
grouperCombined(pkgPath) == 0

grouperGoimports(pkgPath) ==
    IF HasPrefix(pkgPath, strLocal) THEN 3
    ELSE IF HasPrefix(pkgPath, strAppengine) THEN 2
    ELSE IF Contains(pkgPath, ".") THEN 1
    ELSE 0

grouperLocalMiddle(pkgPath) ==
    IF HasPrefix(pkgPath, strLocal) THEN 1
    ELSE IF Contains(pkgPath, ".") THEN 2
    ELSE 0

grouperWeird(pkgPath) == Count(pkgPath, "/")

Groupers == {"combined", "goimports", "localMiddle", "weird"}

\* p.grouper.Group(path)
Group(gr, pkgPath) ==
    CASE gr = "combined" -> grouperCombined(pkgPath)
      [] gr = "goimports" -> grouperGoimports(pkgPath)
      [] gr = "localMiddle" -> grouperLocalMiddle(pkgPath)
      [] gr = "weird" -> grouperWeird(pkgPath)

(***************************************************************************)
(* Lines and texts.                                                        *)
(***************************************************************************)
Blank == [k |-> "blank", p |-> 0]        \* the empty line ""
Comment == [k |-> "comment", p |-> 0]    \* a line holding only a comment
Package == [k |-> "code", p |-> 1]       \* the package clause
Code == [k |-> "code", p |-> 2]          \* any other line the parser accepts
Long == [k |-> "long", p |-> 0]          \* a code line longer than the line scanner's buffer
Bad == [k |-> "bad", p |-> 0]            \* a line the parser rejects (an unterminated "os)
Imp(p) == [k |-> "imp", p |-> p]         \* an import spec of Paths[p]

Text(lines, nl) == [lines |-> lines, nl |-> nl]


(***************************************************************************)
(* groupedImports: sorting order and validation.                           *)
(***************************************************************************)
\* groupedImports.Less on two elements
Less(a, b) ==
    \/ a.group < b.group
    \/ a.group = b.group /\ StrLess(a.path, b.path)

errstrStatementOrder == "Import out of order within import group"
errstrStatementExtraLine == "Extra empty line inside import group"
errstrStatementGroup == "Import in incorrect group"
errstrGroupOrder == "Import groups out of order"
errstrGroupExtraLine == "Extra empty line between import groups"
errstrGroupMissingLine == "Missing empty line between import groups"

validationError(gi, msg) ==
    [Message |-> msg, ImportPath |-> gi.path, Line |-> gi.startLine]

\* validateStep without the test of the group order
validateStepNoGroupOrder(prev, gi) ==
    LET emptyLines == gi.startLine - prev.endLine - 1 IN
    IF gi.group = prev.group THEN
        IF emptyLines > 0 THEN errstrStatementExtraLine
        ELSE IF StrLess(gi.path, prev.path) THEN errstrStatementOrder
        ELSE ""
    ELSE IF emptyLines = 0 THEN errstrStatementGroup
    ELSE IF emptyLines > 1 THEN errstrGroupExtraLine
    ELSE ""

\* validateStep with the two tests inside a group exchanged
validateStepOrderFirst(prev, gi) ==
    LET emptyLines == gi.startLine - prev.endLine - 1 IN
    IF gi.group = prev.group THEN
        IF StrLess(gi.path, prev.path) THEN errstrStatementOrder
        ELSE IF emptyLines > 0 THEN errstrStatementExtraLine
        ELSE ""
    ELSE IF emptyLines = 0 THEN errstrStatementGroup
    ELSE IF gi.group < prev.group THEN errstrGroupOrder
    ELSE IF emptyLines > 1 THEN errstrGroupExtraLine
    ELSE ""

\* validateStep with the last two tests between groups exchanged
validateStepExtraLineFirst(prev, gi) ==
    LET emptyLines == gi.startLine - prev.endLine - 1 IN
    IF gi.group = prev.group THEN
        IF emptyLines > 0 THEN errstrStatementExtraLine
        ELSE IF StrLess(gi.path, prev.path) THEN errstrStatementOrder
        ELSE ""
    ELSE IF emptyLines = 0 THEN errstrStatementGroup
    ELSE IF emptyLines > 1 THEN errstrGroupExtraLine
    ELSE IF gi.group < prev.group THEN errstrGroupOrder
    ELSE ""

\* the body of the loop of validate (package gogroup) for one g with prev
\* set: the message of the return it takes, "" when it takes none
validateStep(prev, gi) ==
    LET emptyLines == gi.startLine - prev.endLine - 1 IN
    IF gi.group = prev.group THEN
        IF emptyLines > 0 THEN errstrStatementExtraLine
        ELSE IF StrLess(gi.path, prev.path) THEN errstrStatementOrder
        ELSE ""
    ELSE IF emptyLines = 0 THEN errstrStatementGroup
    ELSE IF gi.group < prev.group THEN errstrGroupOrder
    ELSE IF emptyLines > 1 THEN errstrGroupExtraLine
    ELSE ""

\* validateLoop that goes on after a violation and returns the last one
RECURSIVE validateLoopLast(_, _)
validateLoopLast(s, i) ==
    IF i > Len(s) THEN None
    ELSE IF validateLoopLast(s, i + 1) # None THEN validateLoopLast(s, i + 1)
    ELSE IF validateStep(s[i - 1], s[i]) # ""
         THEN Some(validationError(s[i], validateStep(s[i - 1], s[i])))
         ELSE None

RECURSIVE validateLoop(_, _)
validateLoop(s, i) ==
    IF i > Len(s) THEN None
    ELSE IF validateStep(s[i - 1], s[i]) # ""
         THEN Some(validationError(s[i], validateStep(s[i - 1], s[i])))
         ELSE validateLoop(s, i + 1)

\* groupedImports.validate of package gogroup
validate(s) == IF Len(s) < 2 THEN None ELSE validateLoop(s, 2)

\* the same loop body in package group_imports
legacyValidateStep(prev, gi) ==
    LET emptyLines == gi.startLine - prev.endLine - 1 IN
    IF gi.group = prev.group THEN
        IF StrLess(gi.path, prev.path) THEN errstrStatementOrder
        ELSE IF emptyLines > 0 THEN errstrStatementExtraLine
        ELSE ""
    ELSE IF emptyLines = 0 THEN errstrStatementGroup
    ELSE IF gi.group < prev.group THEN errstrGroupOrder
    ELSE IF emptyLines > 1 THEN errstrGroupExtraLine
    ELSE IF emptyLines = 0 THEN errstrGroupMissingLine
    ELSE ""

RECURSIVE legacyValidateLoop(_, _)
legacyValidateLoop(s, i) ==
    IF i > Len(s) THEN None
    ELSE IF legacyValidateStep(s[i - 1], s[i]) # ""
         THEN Some(validationError(s[i], legacyValidateStep(s[i - 1], s[i])))
         ELSE legacyValidateLoop(s, i + 1)

\* groupedImports.validate of package group_imports
legacyValidate(s) == IF Len(s) < 2 THEN None ELSE legacyValidateLoop(s, 2)

(***************************************************************************)
(* Extraction.  The parser reports one import spec per "imp" line; a run   *)
(* of comment lines directly above it is its Doc.  It fails on a line it   *)
(* cannot scan.                                                            *)
(***************************************************************************)
\* index (one based) of the first line of the statement whose spec is line i
RECURSIVE DocStart(_, _)
DocStart(lines, i) ==
    IF i > 1 /\ lines[i - 1].k = "comment" THEN DocStart(lines, i - 1) ELSE i

RECURSIVE importsFrom(_, _, _)
importsFrom(gr, lines, i) ==
    IF i > Len(lines) THEN << >>
    ELSE IF lines[i].k = "imp"
         THEN << [startLine |-> DocStart(lines, i) - 1,
                  endLine |-> i - 1,
                  path |-> Paths[lines[i].p],
                  group |-> Group(gr, Paths[lines[i].p])] >>
              \o importsFrom(gr, lines, i + 1)
         ELSE importsFrom(gr, lines, i + 1)

\* Processor.readImports: [gs, err]; readOk is whether the reader delivers
readImports(gr, text, readOk) ==
    IF ~readOk THEN [gs |-> << >>, err |-> "read"]
    ELSE IF \E i \in 1..Len(text.lines) : text.lines[i].k = "bad"
         THEN [gs |-> << >>, err |-> "parse"]
         ELSE [gs |-> importsFrom(gr, text.lines, 1), err |-> "nil"]

\* procValidate that also returns an error for a grouping violation
procValidateErr(gr, text, readOk) ==
    LET r == readImports(gr, text, readOk) IN
    IF r.err # "nil" THEN [validErr |-> None, err |-> r.err, gs |-> << >>]
    ELSE [validErr |-> validate(r.gs),
          err |-> IF validate(r.gs) = None THEN "nil" ELSE "invalid",
          gs |-> r.gs]

\* Processor.validate: [validErr, err, gs]
procValidate(gr, text, readOk) ==
    LET r == readImports(gr, text, readOk) IN
    IF r.err # "nil" THEN [validErr |-> None, err |-> r.err, gs |-> << >>]
    ELSE [validErr |-> validate(r.gs), err |-> "nil", gs |-> r.gs]

\* Processor.validate of package group_imports
legacyProcValidate(gr, text, readOk) ==
    LET r == readImports(gr, text, readOk) IN
    IF r.err # "nil" THEN [validErr |-> None, err |-> r.err, gs |-> << >>]
    ELSE [validErr |-> legacyValidate(r.gs), err |-> "nil", gs |-> r.gs]


(***************************************************************************)
(* Rewriting.                                                              *)
(***************************************************************************)
\* readLines: the scanner gives up on a line longer than its buffer, and
\* drops the line terminators
readLines(text) ==
    IF \E i \in 1..Len(text.lines) : text.lines[i].k = "long"
    THEN [lines |-> << >>, err |-> "token too long"]
    ELSE [lines |-> text.lines, err |-> "nil"]

\* writeLines into a bytes.Buffer: every line is followed by a newline
writeLines(lines) == Text(lines, lines # << >>)

\* the orders sort.Sort can leave the elements idx of s in: each begins with
\* an element that no other one is Less than
RECURSIVE sortOrders(_, _)
sortOrders(s, idx) ==
    IF idx = {} THEN {<< >>}
    ELSE UNION {{<<s[i]>> \o rest : rest \in sortOrders(s, idx \ {i})} :
                  i \in {j \in idx : \A k \in idx : ~Less(s[k], s[j])}}

\* what sort.Sort(gs) can leave in the slice: sort.Sort is not stable, so
\* elements that compare equal end in any order
sortSort(s) == sortOrders(s, 1..Len(s))

\* sortedLoop that appends no empty line where the group changes
RECURSIVE sortedLoopNoEmptyLine(_, _, _)
sortedLoopNoEmptyLine(s, lines, i) ==
    IF i > Len(s) THEN << >>
    ELSE SubSeq(lines, s[i].startLine + 1, s[i].endLine + 1)
         \o sortedLoopNoEmptyLine(s, lines, i + 1)

\* sortedLoop that slices lines[g.startLine:g.endLine]
RECURSIVE sortedLoopDropsLastLine(_, _, _)
sortedLoopDropsLastLine(s, lines, i) ==
    IF i > Len(s) THEN << >>
    ELSE (IF i > 1 /\ s[i].group # s[i - 1].group THEN <<Blank>> ELSE << >>)
         \o SubSeq(lines, s[i].startLine + 1, s[i].endLine)
         \o sortedLoopDropsLastLine(s, lines, i + 1)

\* the loop of sortedImportLines over the sorted slice, from element i on
RECURSIVE sortedLoop(_, _, _)
sortedLoop(s, lines, i) ==
    IF i > Len(s) THEN << >>
    ELSE (IF i > 1 /\ s[i].group # s[i - 1].group THEN <<Blank>> ELSE << >>)
         \o SubSeq(lines, s[i].startLine + 1, s[i].endLine + 1)
         \o sortedLoop(s, lines, i + 1)

\* sortedImportLines, given what sort.Sort left in gs
sortedImportLines(sorted, lines) == sortedLoop(sorted, lines, 1)

\* splice with min and max read after the sort
spliceAfterSort(lines, s, sorted) ==
    LET min == sorted[1].startLine
        max == sorted[Len(sorted)].endLine
    IN  SubSeq(lines, 1, min)
        \o sortedLoop(sorted, lines, 1)
        \o SubSeq(lines, max + 2, Len(lines))

\* the splice of writeFixed; min and max are read before the sort
splice(lines, s, sorted) ==
    LET min == s[1].startLine
        max == s[Len(s)].endLine
    IN  SubSeq(lines, 1, min)
        \o sortedImportLines(sorted, lines)
        \o SubSeq(lines, max + 2, Len(lines))

\* writeFixed that sorts a copy of the slice and leaves the caller's as it was
writeFixedOnCopy(text, s) ==
    LET rl == readLines(text) IN
    IF rl.err # "nil" THEN {[out |-> None, err |-> rl.err, gs |-> s]}
    ELSE {[out |-> Some(writeLines(splice(rl.lines, s, sorted))),
           err |-> "nil", gs |-> s] : sorted \in sortSort(s)}

\* writeFixed: the possible [out, err, gs]; gs is the caller's slice afterwards
writeFixed(text, s) ==
    LET rl == readLines(text) IN
    IF rl.err # "nil" THEN {[out |-> None, err |-> rl.err, gs |-> s]}
    ELSE {[out |-> Some(writeLines(splice(rl.lines, s, sorted))),
           err |-> "nil", gs |-> sorted] : sorted \in sortSort(s)}

\* Processor.repair: the possible [out, err, gs]
repair(gr, text, readOk) ==
    IF ~readOk THEN {[out |-> None, err |-> "read", gs |-> << >>]}
    ELSE LET r == readImports(gr, text, TRUE) IN
         IF r.err # "nil" THEN {[out |-> None, err |-> r.err, gs |-> << >>]}
         ELSE IF validate(r.gs) = None
              THEN {[out |-> None, err |-> "nil", gs |-> r.gs]}
              ELSE writeFixed(text, r.gs)

\* text without its line i
DropLine(text, i) ==
    Text(SubSeq(text.lines, 1, i - 1) \o SubSeq(text.lines, i + 1, Len(text.lines)),
         text.nl)

\* imports.Process, the formatting pass: it fails on a file it cannot parse;
\* otherwise it returns the text, the text ended by a newline, or the text
\* with one of two consecutive empty lines removed
Process(text) ==
    IF \E i \in 1..Len(text.lines) : text.lines[i].k = "bad"
    THEN {[formatted |-> None, err |-> "parse"]}
    ELSE {[formatted |-> Some(t), err |-> "nil"] :
            t \in {text, Text(text.lines, text.lines # << >>)}
                  \cup {DropLine(text, i) : i \in
                         {j \in 2..Len(text.lines) :
                            text.lines[j] = Blank /\ text.lines[j - 1] = Blank}}}

\* what reformat returns after repair(formatted) returned r
reformatResult(text, fm, r) ==
    IF r.err # "nil" THEN [out |-> None, err |-> r.err, gs |-> r.gs]
    ELSE IF r.out = None /\ text = fm THEN [out |-> None, err |-> "nil", gs |-> r.gs]
    ELSE [out |-> r.out, err |-> "nil", gs |-> r.gs]

\* Processor.reformat: the possible [out, err, gs, formatted]
reformat(gr, text, readOk) ==
    IF ~readOk
    THEN {[out |-> None, err |-> "read", gs |-> << >>, formatted |-> None]}
    ELSE UNION {
           IF f.err # "nil"
           THEN {[out |-> None, err |-> f.err, gs |-> << >>, formatted |-> None]}
           ELSE {[out |-> reformatResult(text, f.formatted[1], r).out,
                  err |-> reformatResult(text, f.formatted[1], r).err,
                  gs |-> r.gs,
                  formatted |-> f.formatted] : r \in repair(gr, f.formatted[1], TRUE)}
           : f \in Process(text)}


(***************************************************************************)
(* The command line grouper.                                               *)
(***************************************************************************)
newGrouper == [prefixes |-> << >>, std |-> 0, other |-> 1, next |-> 2]

\* grouper.Group: the values a call can return.  The loop ranges over a map,
\* whose iteration order is not fixed: any matching entry can come first.
cliGroup(gr, pkg) ==
    LET hits == {n \in DOMAIN gr.prefixes : HasPrefix(pkg, gr.prefixes[n])} IN
    IF hits # {} THEN hits
    ELSE IF Contains(pkg, ".") THEN {gr.other}
    ELSE {gr.std}

\* strings.Split(s, ",")
RECURSIVE Split(_)
Split(s) ==
    IF \E i \in 1..Len(s) : s[i] = ","
    THEN LET i == CHOOSE j \in 1..Len(s) :
                    s[j] = "," /\ \A k \in 1..(j - 1) : s[k] # ","
         IN  <<SubSeq(s, 1, i - 1)>> \o Split(SubSeq(s, i + 1, Len(s)))
    ELSE <<s>>

strStd == <<"s", "t", "d">>
strOther == <<"o", "t", "h", "e", "r">>
strPrefixEq == <<"p", "r", "e", "f", "i", "x", "=">>

\* rePrefix.FindStringSubmatch(p) # nil, for a token without newline
rePrefixMatch(p) == HasPrefix(p, strPrefixEq)
rePrefixGroup1(p) == SubSeq(p, Len(strPrefixEq) + 1, Len(p))

\* setLoop that passes over a part it does not know
RECURSIVE setLoopSkipUnknown(_, _, _)
setLoopSkipUnknown(gr, parts, i) ==
    IF i > Len(parts) THEN [g |-> gr, err |-> "nil"]
    ELSE LET p == parts[i] IN
         IF p = strStd
         THEN setLoopSkipUnknown([gr EXCEPT !.std = gr.next, !.next = gr.next + 1],
                                 parts, i + 1)
         ELSE IF p = strOther
         THEN setLoopSkipUnknown([gr EXCEPT !.other = gr.next, !.next = gr.next + 1],
                                 parts, i + 1)
         ELSE IF rePrefixMatch(p)
         THEN setLoopSkipUnknown(
                  [gr EXCEPT
                     !.prefixes = [n \in DOMAIN gr.prefixes \cup {gr.next} |->
                                     IF n = gr.next THEN rePrefixGroup1(p)
                                     ELSE gr.prefixes[n]],
                     !.next = gr.next + 1], parts, i + 1)
         ELSE setLoopSkipUnknown(gr, parts, i + 1)

\* the loop of grouper.Set from part i on: [g, err]
RECURSIVE setLoop(_, _, _)
setLoop(gr, parts, i) ==
    IF i > Len(parts) THEN [g |-> gr, err |-> "nil"]
    ELSE LET p == parts[i] IN
         IF p = strStd
         THEN setLoop([gr EXCEPT !.std = gr.next, !.next = gr.next + 1], parts, i + 1)
         ELSE IF p = strOther
         THEN setLoop([gr EXCEPT !.other = gr.next, !.next = gr.next + 1], parts, i + 1)
         ELSE IF rePrefixMatch(p)
         THEN setLoop([gr EXCEPT
                         !.prefixes = [n \in DOMAIN gr.prefixes \cup {gr.next} |->
                                         IF n = gr.next THEN rePrefixGroup1(p)
                                         ELSE gr.prefixes[n]],
                         !.next = gr.next + 1], parts, i + 1)
         ELSE [g |-> gr, err |-> "Unknown order specification"]

\* grouper.Set(s): [g, err]
cliSet(gr, s) == setLoop(gr, Split(s), 1)


(***************************************************************************)
(* Inputs.                                                                 *)
(***************************************************************************)
BlockLines == {Blank, Comment} \cup {Imp(p) : p \in 1..Len(Paths)}

\* from the first import spec to the last one
Blocks(max) ==
    {<< >>} \cup
    {b \in UNION {[1..n -> BlockLines] : n \in 1..max} :
        b[1].k = "imp" /\ b[Len(b)].k = "imp"}

\* the package clause, with or without a comment right above the first import
Headers == {<<Package>>, <<Package, Comment>>}

\* what follows the last import, and whether the file ends with a newline
Footers ==
    {[lines |-> <<Code>>, nl |-> FALSE],
     [lines |-> <<Blank, Blank, Long>>, nl |-> TRUE],
     [lines |-> <<Bad>>, nl |-> TRUE]}

\* files that end with a newline and hold nothing unusual, and files that
\* do not: no final newline, an overlong line, a line that does not parse
Inputs ==
    {Text(h \o b \o <<Code>>, TRUE) : h \in Headers, b \in Blocks(MaxBlock)}
    \cup {Text(<<Package>> \o b \o f.lines, f.nl) : b \in Blocks(MaxOddBlock), f \in Footers}

Tokens ==
    {strStd, strOther, strPrefixEq \o <<"x">>, strPrefixEq \o <<"x", ".", "y">>,
     <<"b", "a", "d">>, << >>}

RECURSIVE Join(_)
Join(parts) ==
    IF Len(parts) = 1 THEN parts[1]
    ELSE parts[1] \o <<",">> \o Join(Tail(parts))

\* the -order arguments
SetArgs == {Join(ts) : ts \in UNION {[1..n -> Tokens] : n \in 1..MaxParts}}

(***************************************************************************)
(* The Processor keeps nothing between calls: a behaviour is one call on   *)
(* the input chosen at the start.                                          *)
(***************************************************************************)
InitCli ==
    /\ g = newGrouper
    /\ setArg = << >>
    /\ groupArg = << >>
    /\ groupRet = -1

InitProc ==
    /\ op = "none"
    /\ gs = << >>
    /\ validErr = None
    /\ out = None
    /\ err = "nil"
    /\ formatted = None
    /\ rdOk = TRUE

Init ==
    /\ grouper \in Groupers
    /\ src \in Inputs
    /\ InitProc
    /\ InitCli

\* Processor.Validate(fileName, r)
Validate ==
    /\ op = "none"
    /\ \E ok \in BOOLEAN : \E r \in {procValidate(grouper, src, ok)} :
        /\ op' = "Validate"
        /\ rdOk' = ok
        /\ validErr' = r.validErr
        /\ err' = r.err
        /\ gs' = r.gs
        /\ out' = None
        /\ formatted' = None
        /\ UNCHANGED <<grouper, src>>
        /\ UNCHANGED cliVars

\* Processor.Validate of package group_imports
LegacyValidate ==
    /\ op = "none"
    /\ \E ok \in BOOLEAN : \E r \in {legacyProcValidate(grouper, src, ok)} :
        /\ op' = "LegacyValidate"
        /\ rdOk' = ok
        /\ validErr' = r.validErr
        /\ err' = r.err
        /\ gs' = r.gs
        /\ out' = None
        /\ formatted' = None
        /\ UNCHANGED <<grouper, src>>
        /\ UNCHANGED cliVars

\* Processor.Repair(fileName, r)
Repair ==
    /\ op = "none"
    /\ \E ok \in BOOLEAN : \E r \in repair(grouper, src, ok) :
        /\ op' = "Repair"
        /\ rdOk' = ok
        /\ validErr' = None
        /\ err' = r.err
        /\ gs' = r.gs
        /\ out' = r.out
        /\ formatted' = None
        /\ UNCHANGED <<grouper, src>>
        /\ UNCHANGED cliVars

\* Processor.Reformat(fileName, r)
Reformat ==
    /\ op = "none"
    /\ \E ok \in BOOLEAN : \E r \in reformat(grouper, src, ok) :
        /\ op' = "Reformat"
        /\ rdOk' = ok
        /\ validErr' = None
        /\ err' = r.err
        /\ gs' = r.gs
        /\ out' = r.out
        /\ formatted' = r.formatted
        /\ UNCHANGED <<grouper, src>>
        /\ UNCHANGED cliVars

Next == Validate \/ LegacyValidate \/ Repair \/ Reformat

Spec == Init /\ [][Next]_vars

(***************************************************************************)
(* The command line: -order arguments are Set in turn, then paths are      *)
(* looked up.                                                              *)
(***************************************************************************)
InitCfg ==
    /\ grouper = "combined"
    /\ src = Text(<<Package>>, TRUE)
    /\ InitProc
    /\ InitCli

\* flag.Parse hands one -order argument to gr.Set; it ends the program when
\* Set returns an error
Set ==
    /\ op \in {"none", "Set"}
    /\ err = "nil"
    /\ \E s \in SetArgs : \E r \in {cliSet(g, s)} :
        /\ r.g.next <= MaxNext + 1
        /\ op' = "Set"
        /\ setArg' = s
        /\ g' = r.g
        /\ err' = r.err
        /\ groupArg' = << >>
        /\ groupRet' = -1
        /\ UNCHANGED <<grouper, src, gs, validErr, out, formatted, rdOk>>

\* gr.Group(path), as readImports calls it once the flags are parsed
GroupCall ==
    /\ err = "nil"
    /\ \E p \in 1..Len(Paths) : \E n \in cliGroup(g, Paths[p]) :
        /\ op' = "Group"
        /\ groupArg' = Paths[p]
        /\ groupRet' = n
        /\ setArg' = << >>
        /\ UNCHANGED <<g, err>>
        /\ UNCHANGED <<grouper, src, gs, validErr, out, formatted, rdOk>>

NextCfg == Set \/ GroupCall

SpecCfg == InitCfg /\ [][NextCfg]_vars


(***************************************************************************)
(* Properties of validation.                                               *)
(***************************************************************************)
\* the number of lines between two statements
blank(prev, gi) == gi.startLine - prev.endLine - 1

\* the grouping and spacing rule for an adjacent pair
PairOK(prev, gi) ==
    IF gi.group = prev.group
    THEN ~StrLess(gi.path, prev.path) /\ blank(prev, gi) = 0
    ELSE blank(prev, gi) = 1 /\ gi.group > prev.group

\* the pairs (s[i - 1], s[i]) that break the rule with none before them doing so
FirstBad(s) ==
    {i \in 2..Len(s) : ~PairOK(s[i - 1], s[i])
                       /\ \A j \in 2..(i - 1) : PairOK(s[j - 1], s[j])}

Validated == op = "Validate" /\ err = "nil"

\* C4: validate returns nil exactly when the sequence has fewer than two
\* entries or every adjacent pair keeps the rule: same group, path not below
\* the previous one and no line between; other group, exactly one line
\* between and a larger group.
C4_NilIffEveryPairOK ==
    Validated =>
        (validErr = None <=>
            (Len(gs) < 2 \/ \A i \in 2..Len(gs) : PairOK(gs[i - 1], gs[i])))

\* validate accepted three imports, two of one group and one of another
C4_Witness ==
    /\ Validated
    /\ validErr = None
    /\ Len(gs) >= 3
    /\ \E i \in 2..Len(gs) : gs[i].group = gs[i - 1].group
    /\ \E i \in 2..Len(gs) : gs[i].group # gs[i - 1].group

\* a first offending pair of one group, out of order and with a line between
OrderAndSpace(s, i) ==
    /\ s[i].group = s[i - 1].group
    /\ StrLess(s[i].path, s[i - 1].path)
    /\ blank(s[i - 1], s[i]) > 0

\* C5 as stated: for a pair of one group that is out of order and has an
\* empty line between, validate reports StatementOrder.
C5_OrderBeforeSpacing ==
    Validated =>
        \A i \in FirstBad(gs) :
            OrderAndSpace(gs, i) =>
                validErr = Some(validationError(gs[i], errstrStatementOrder))

\* C5 amended: package gogroup tests the spacing first and reports
\* StatementExtraLine for such a pair; package group_imports tests the order
\* first and reports StatementOrder.
C5_SpacingBeforeOrder ==
    /\ Validated =>
        \A i \in FirstBad(gs) :
            OrderAndSpace(gs, i) =>
                validErr = Some(validationError(gs[i], errstrStatementExtraLine))
    /\ (op = "LegacyValidate" /\ err = "nil") =>
        \A i \in FirstBad(gs) :
            OrderAndSpace(gs, i) =>
                validErr = Some(validationError(gs[i], errstrStatementOrder))

\* validate met such a pair
C5_Witness ==
    /\ Validated
    /\ \E i \in FirstBad(gs) : OrderAndSpace(gs, i)
    /\ validErr # None

GroupErrstrs == {errstrStatementGroup, errstrGroupOrder, errstrGroupExtraLine}

\* C6: for the first offending pair, when its groups differ: no line between
\* gives StatementGroup whatever the group order; otherwise a smaller group
\* gives GroupOrder whatever the number of lines; otherwise more than one
\* line gives GroupExtraLine.  None of the three is reported for a pair of one
\* group, so never under the combined grouper.
C6_GroupVerdictPriority ==
    Validated =>
        /\ \A i \in FirstBad(gs) :
            LET prev == gs[i - 1]
                gi == gs[i]
                want == IF blank(prev, gi) = 0 THEN errstrStatementGroup
                        ELSE IF gi.group < prev.group THEN errstrGroupOrder
                        ELSE errstrGroupExtraLine
            IN  /\ gi.group # prev.group =>
                    validErr = Some(validationError(gi, want))
                /\ gi.group = prev.group =>
                    /\ validErr # None
                    /\ validErr[1].Message \notin GroupErrstrs
        /\ (grouper = "combined" /\ validErr # None) =>
                validErr[1].Message \notin GroupErrstrs

\* validate reported GroupOrder for a pair with two lines between
C6_Witness ==
    /\ Validated
    /\ \E i \in FirstBad(gs) :
        /\ gs[i].group < gs[i - 1].group
        /\ blank(gs[i - 1], gs[i]) > 1
        /\ validErr = Some(validationError(gs[i], errstrGroupOrder))

\* C7: a ValidationError describes the first offending pair: the pairs before
\* it keep the rule, ImportPath and Line are the path and the zero based
\* startLine of its second statement, and the pairs after it do not matter.
C7_FirstViolation ==
    (Validated /\ validErr # None) =>
        \E i \in FirstBad(gs) :
            /\ validErr[1].ImportPath = gs[i].path
            /\ validErr[1].Line = gs[i].startLine
            /\ validErr = validate(SubSeq(gs, 1, i))

\* validate reported the first of two offending pairs
C7_Witness ==
    /\ Validated
    /\ validErr # None
    /\ \E i \in FirstBad(gs) :
        /\ validErr[1].Line = gs[i].startLine
        /\ \E j \in (i + 1)..Len(gs) :
            /\ ~PairOK(gs[j - 1], gs[j])
            /\ validateStep(gs[j - 1], gs[j]) # validErr[1].Message


(***************************************************************************)
(* Properties of rewriting.                                                *)
(***************************************************************************)
\* the import line ranges do not overlap and increase in source order
Increasing(s) == \A i \in 2..Len(s) : s[i].startLine > s[i - 1].endLine

\* the imports of the input, in source order
srcImports == readImports(grouper, src, TRUE).gs

Rewritten == op = "Repair" /\ out # None

C2_LinesOutsideBlockKept ==
    Rewritten =>
        LET min == srcImports[1].startLine
            max == srcImports[Len(srcImports)].endLine
            after == Len(src.lines) - max - 1
            o == out[1].lines
        IN  /\ Len(o) >= min + after
            /\ SubSeq(o, 1, min) = SubSeq(src.lines, 1, min)
            /\ SubSeq(o, min + 1, Len(o) - after) = sortedImportLines(gs, src.lines)
            /\ SubSeq(o, Len(o) - after + 1, Len(o))
                 = SubSeq(src.lines, max + 2, Len(src.lines))

\* Repair moved the first import away from the head of the block and
\* changed the length of the block
C2_Witness ==
    /\ Rewritten
    /\ gs[1] # srcImports[1]
    /\ gs[Len(gs)] # srcImports[Len(gs)]
    /\ Len(out[1].lines) # Len(src.lines)
    /\ srcImports[1].startLine >= 1
    /\ srcImports[Len(srcImports)].endLine + 1 < Len(src.lines)

\* C3 as stated: Reformat returns nil only when the formatting pass left the
\* text as it was and Repair had nothing to rewrite; otherwise it returns the
\* final text: what Repair wrote, or else what the formatting pass returned.
C3_ReformatNilOnlyIfUnchanged ==
    (op = "Reformat" /\ err = "nil") =>
        LET fm == formatted[1]
            valid == validate(readImports(grouper, fm, TRUE).gs) = None
        IN  /\ out = None <=> (fm = src /\ valid)
            /\ ~valid => out \in {r.out : r \in repair(grouper, fm, TRUE)}
            /\ (valid /\ fm # src) => out = Some(fm)

\* C8 as stated: an error comes with nil results; a failed extraction gives
\* an error; a successful one gives no error, and a grouping violation shows
\* in the ValidationError (Validate) or in the text (Repair).
C8_ErrorOnlyForExtraction ==
    op \in {"Validate", "Repair"} =>
        LET r == readImports(grouper, src, rdOk) IN
        /\ err # "nil" => (validErr = None /\ out = None)
        /\ r.err # "nil" => (err # "nil" /\ gs = << >>)
        /\ r.err = "nil" => err = "nil"
        /\ (r.err = "nil" /\ validate(r.gs) # None) =>
                IF op = "Validate" THEN validErr # None ELSE out # None

\* C8 amended: as stated, but Repair also returns an error, with nil output,
\* when the imports break the rule and the text cannot be split into lines.
C8_ErrorForExtractionOrLines ==
    op \in {"Validate", "Repair"} =>
        LET r == readImports(grouper, src, rdOk)
            noLines == op = "Repair" /\ readLines(src).err # "nil"
        IN
        /\ err # "nil" => (validErr = None /\ out = None)
        /\ r.err # "nil" => (err # "nil" /\ gs = << >>)
        /\ (r.err = "nil" /\ validate(r.gs) = None) =>
                (err = "nil" /\ validErr = None /\ out = None)
        /\ (r.err = "nil" /\ validate(r.gs) # None /\ ~noLines) =>
                /\ err = "nil"
                /\ IF op = "Validate" THEN validErr # None ELSE out # None
        /\ (r.err = "nil" /\ validate(r.gs) # None /\ noLines) =>
                err = readLines(src).err

\* Repair read the imports, found them out of order and failed on the lines
C8_Witness ==
    /\ op = "Repair"
    /\ readImports(grouper, src, rdOk).err = "nil"
    /\ err = "token too long"
    /\ out = None


(***************************************************************************)
(* Properties of the command line grouper.                                 *)
(***************************************************************************)
Min(S) == CHOOSE x \in S : \A y \in S : x <= y
Max(S) == CHOOSE x \in S : \A y \in S : x >= y

\* the ids of the configured prefixes that pkg starts with
Hits(gr, pkg) == {n \in DOMAIN gr.prefixes : HasPrefix(pkg, gr.prefixes[n])}

\* C9 as stated: with the configuration unchanged, two calls of Group with
\* the same path return the same group, and a path that starts with
\* configured prefixes gets the group of the one specified first.
C9_GroupIsPureFirstPrefixWins ==
    [][op' = "Group" =>
          /\ Hits(g', groupArg') # {} => groupRet' = Min(Hits(g', groupArg'))
          /\ (op = "Group" /\ groupArg' = groupArg) => groupRet' = groupRet]_vars

\* a part that Set knows
Recognized(p) == p = strStd \/ p = strOther \/ HasPrefix(p, strPrefixEq)

Repeated(parts) == \E i, j \in 1..Len(parts) : i < j /\ parts[i] = parts[j]

\* C10 as stated: Set returns an error exactly when a part is not known or is
\* given twice.
C10_SetRejectsUnknownAndDuplicate ==
    op = "Set" =>
        (err # "nil" <=>
            \/ \E k \in 1..Len(Split(setArg)) : ~Recognized(Split(setArg)[k])
            \/ Repeated(Split(setArg)))

\* C10 amended: Set returns an error exactly when a part is not known; a
\* part given twice is accepted.  On success part k gets id next + k - 1:
\* next advances by the number of parts, a prefix part adds its prefix under
\* its id, and std and other hold the id of their last occurrence, or their
\* old value when they do not occur.
C10_SetRejectsUnknownOnly ==
    [][op' = "Set" =>
          LET parts == Split(setArg')
              n == Len(parts)
              ids(p) == {g.next + k - 1 : k \in {j \in 1..n : parts[j] = p}}
              prefixIds == {g.next + k - 1 :
                              k \in {j \in 1..n : HasPrefix(parts[j], strPrefixEq)}}
          IN  /\ err' # "nil" <=> \E k \in 1..n : ~Recognized(parts[k])
              /\ err' = "nil" =>
                    /\ g'.next = g.next + n
                    /\ g'.std = IF ids(strStd) = {} THEN g.std ELSE Max(ids(strStd))
                    /\ g'.other = IF ids(strOther) = {} THEN g.other
                                  ELSE Max(ids(strOther))
                    /\ DOMAIN g'.prefixes = DOMAIN g.prefixes \cup prefixIds
                    /\ \A i \in DOMAIN g.prefixes : g'.prefixes[i] = g.prefixes[i]
                    /\ \A k \in 1..n :
                          HasPrefix(parts[k], strPrefixEq) =>
                              g'.prefixes[g.next + k - 1]
                                = SubSeq(parts[k], Len(strPrefixEq) + 1, Len(parts[k]))]_vars

\* Set accepted an argument that names std twice, and std holds the later id
C10_Witness ==
    /\ op = "Set"
    /\ err = "nil"
    /\ Repeated(Split(setArg))
    /\ \E i, j \in 1..Len(Split(setArg)) :
          /\ i < j
          /\ Split(setArg)[i] = strStd
          /\ Split(setArg)[j] = strStd
          /\ g.std = g.next - 1 - (Len(Split(setArg)) - j)


(***************************************************************************)
(* Properties of the slice and of the block that writeFixed generates.     *)
(***************************************************************************)
\* s holds the elements of t, each as often as t does
Permutation(s, t) ==
    /\ Len(s) = Len(t)
    /\ \A x \in {s[i] : i \in 1..Len(s)} \cup {t[i] : i \in 1..Len(t)} :
          Cardinality({i \in 1..Len(s) : s[i] = x})
            = Cardinality({i \in 1..Len(t) : t[i] = x})

\* no element of s is Less than the one before it
Sorted(s) == \A i \in 2..Len(s) : ~Less(s[i], s[i - 1])

\* C11 as stated: after writeFixed returned, the slice it was given holds
\* the same elements in the same source order as before the call.
C11_SliceKeepsSourceOrder ==
    Rewritten => gs = srcImports

\* C11 as amended: the sort works in place on the slice writeFixed was given:
\* after writeFixed wrote a text, the slice holds the same elements, each as
\* often as before, and none of them is Less than the one before it.  The
\* slice is as it was only when writeFixed returned the error of readLines,
\* which it reads before it sorts.
C11_SliceSortedInPlace ==
    /\ Rewritten => Permutation(gs, srcImports) /\ Sorted(gs)
    /\ (op = "Repair" /\ err = "token too long") => gs = srcImports

\* Repair rewrote a file whose imports were not in (group, path) order: the
\* slice left by the call differs from the one that was extracted
C11_Witness ==
    /\ Rewritten
    /\ ~Sorted(srcImports)
    /\ gs # srcImports
    /\ Len(gs) >= 3

\* number of lines of the import gi
NumLines(gi) == gi.endLine - gi.startLine + 1

\* number of lines of the first n imports of s
RECURSIVE SumLines(_, _)
SumLines(s, n) == IF n = 0 THEN 0 ELSE SumLines(s, n - 1) + NumLines(s[n])

\* the groups of the first n imports of s
GroupsOf(s, n) == {s[i].group : i \in 1..n}

\* the block that stands in the output between the lines kept from above
\* the first import and the lines kept from below the last one
OutBlock ==
    LET min == srcImports[1].startLine
        max == srcImports[Len(srcImports)].endLine
        after == Len(src.lines) - max - 1
    IN  SubSeq(out[1].lines, min + 1, Len(out[1].lines) - after)

\* where the lines of the k-th import of s start in the block (zero based),
\* when an empty line stands at each change of group and nowhere else
Offset(s, k) == SumLines(s, k - 1) + Cardinality(GroupsOf(s, k)) - 1

\* C12: when the import line ranges increase without overlap, the block put
\* in place of the span holds the lines startLine..endLine of every import
\* of the file, each import once, its lines together and in their order,
\* one empty line at each change of group and nothing else; its length is
\* the sum of the imports' line counts plus the number of groups minus one.
C12_BlockIsImportsPlusSeparators ==
    (Rewritten /\ Increasing(srcImports)) =>
        LET B == OutBlock
            n == Len(gs)
            covered == UNION {(Offset(gs, k) + 1)..(Offset(gs, k) + NumLines(gs[k])) :
                                k \in 1..n}
        IN  /\ Permutation(gs, srcImports)
            /\ Len(B) = SumLines(srcImports, n) + Cardinality(GroupsOf(srcImports, n)) - 1
            /\ \A k \in 1..n :
                  SubSeq(B, Offset(gs, k) + 1, Offset(gs, k) + NumLines(gs[k]))
                    = SubSeq(src.lines, gs[k].startLine + 1, gs[k].endLine + 1)
            /\ \A k, m \in 1..n :
                  k < m => Offset(gs, k) + NumLines(gs[k]) <= Offset(gs, m)
            /\ \A q \in 1..Len(B) :
                  q \notin covered =>
                    /\ B[q] = Blank
                    /\ \E k \in 2..n :
                          q = Offset(gs, k) /\ gs[k].group # gs[k - 1].group
            /\ \A k \in 2..n :
                  gs[k].group # gs[k - 1].group => Offset(gs, k) \notin covered

\* Repair rewrote a file with two groups, an import with a comment above it,
\* and inside the span a comment and an empty line that belong to no import
C12_Witness ==
    /\ Rewritten
    /\ Increasing(srcImports)
    /\ Cardinality(GroupsOf(gs, Len(gs))) >= 2
    /\ \E i \in 1..Len(gs) : gs[i].startLine < gs[i].endLine
    /\ \A k \in {"comment", "blank"} :
          \E q \in (srcImports[1].startLine + 1)..(srcImports[Len(srcImports)].endLine + 1) :
            /\ src.lines[q].k = k
            /\ \A i \in 1..Len(srcImports) :
                  q - 1 < srcImports[i].startLine \/ q - 1 > srcImports[i].endLine

====
